---- MODULE Spec2Model ----
(***************************************************************************)
(* Researcher dashboard (revision 2_researcher_dashboard.py): the session  *)
(* state machine that sequences nine timed steps, three group-complete     *)
(* pages and three questionnaires, and accumulates the export records.     *)
(*                                                                         *)
(* Text values (answers, participant IDs, target numbers, Likert labels)   *)
(* are sequences of one-character strings, so that splitting, formatting   *)
(* and parsing are computed the way the Python code computes them.         *)
(* Python None is modelled by None (-1) for timestamps and scores, by      *)
(* NoSelection (the empty sequence) for an unselected radio, and by        *)
(* Absent (the empty sequence) for a missing participant_id key.           *)
(***************************************************************************)
EXTENDS Integers, Sequences, FiniteSets, TLC

VARIABLES
    participant_id,        \* st.session_state.participant_id, Absent before setup
    current_step,          \* st.session_state.current_step
    data,                  \* st.session_state.data
    show_questionnaire,    \* st.session_state.show_questionnaire
    show_group_complete,   \* st.session_state.show_group_complete
    step_records,          \* st.session_state.step_records
    experiment_complete,   \* st.session_state.experiment_complete
    now,                   \* the next value of datetime.now(), counted from the
                           \* initialisation of the session state
    form_answer,           \* the text of the answer field delivered with the attempt
                           \* form in the most recent script run, empty otherwise
    selections,            \* st.session_state[question_key]: the radio values of the
                           \* questionnaire form as last submitted, while it is shown
    missing_reported,      \* the count shown by the validation error, 0 when none is shown
    last,                  \* the handler that ran in the most recent script run
    detours,               \* off-script researcher actions so far
    sc_step,               \* scoring harness: the step whose targets are used
    sc_answer,             \* scoring harness: the answer text
    sc_result,             \* scoring harness: "pending", or the is_correct computed
    as_pid,                \* assignment harness: the number entered on the setup page
    as_state,              \* assignment harness: "pending", or "resolved"
    as_systems,            \* assignment harness: the system of each group (revision 2)
    as_order               \* assignment harness: st.session_state.systems (revision 1)

sessionVars == <<participant_id, current_step, data, show_questionnaire,
                 show_group_complete, step_records, experiment_complete,
                 now, form_answer, selections, missing_reported, last,
                 detours>>
scoreVars == <<sc_step, sc_answer, sc_result>>
assignVars == <<as_pid, as_state, as_systems, as_order>>
vars == <<sessionVars, scoreVars, assignVars>>

----------------------------------------------------------------------------
(* Bounds *)

\* Off-script actions (wrong or repeated attempts, empty submits, step reset,
\* previous step, questionnaire back, incomplete questionnaire submits) the
\* researcher takes over the lifetime of the model run.
MaxDetours == 2

\* Longest answer text explored by the scoring harness.
MaxAnswerLen == 4

----------------------------------------------------------------------------
(* Encodings of Python values *)

None == -1
NoSelection == <<>>
Absent == <<>>

Whitespace == {" "}
DigitChars == <<"0", "1", "2", "3", "4", "5", "6", "7", "8", "9">>

IsDigit(c) == \E i \in 1..Len(DigitChars) : DigitChars[i] = c

DigitVal(c) == (CHOOSE i \in 1..Len(DigitChars) : DigitChars[i] = c) - 1

\* str(n) for a natural number n
RECURSIVE DecimalText(_)
DecimalText(n) ==
    IF n < 10 THEN <<DigitChars[n + 1]>>
    ELSE DecimalText(n \div 10) \o <<DigitChars[(n % 10) + 1]>>

\* f"{participant_id:02d}"
FormatParticipant(n) ==
    LET t == DecimalText(n) IN IF Len(t) < 2 THEN <<"0">> \o t ELSE t

\* int(text) for a text of decimal digits
RECURSIVE ParseInt(_)
ParseInt(t) ==
    IF Len(t) = 0 THEN 0
    ELSE 10 * ParseInt(SubSeq(t, 1, Len(t) - 1)) + DigitVal(t[Len(t)])

----------------------------------------------------------------------------
(* Static tables *)

STEP_TARGETS ==
    <<[label |-> "2. Platform",                        ids |-> << <<"2">> >>],
      [label |-> "11. Anti-Tip Assembly",              ids |-> << <<"1", "1">> >>],
      [label |-> "9. 5 in.caster / 1. Lower Ladder",   ids |-> << <<"9">>, <<"1">> >>],
      [label |-> "3. Mounting Bracket",                ids |-> << <<"3">> >>],
      [label |-> "5. Brace",                           ids |-> << <<"5">> >>],
      [label |-> "4. Piece Support / 12. Tightening Knob",
                                                       ids |-> << <<"4">>, <<"1", "2">> >>],
      [label |-> "6. Shelf Brace",                     ids |-> << <<"6">> >>],
      [label |-> "10. Locking Pin",                    ids |-> << <<"1", "0">> >>],
      [label |-> "8. Wire Grid Shelf -L- / 7. Wire Grid Shelf -S-",
                                                       ids |-> << <<"8">>, <<"7">> >>]>>

\* STEP_TARGETS.get(current_step, ("N/A", []))
LookupTarget(step) ==
    IF step \in DOMAIN STEP_TARGETS THEN STEP_TARGETS[step]
    ELSE [label |-> "N/A", ids |-> <<>>]

GROUP_STEPS == [A |-> <<1, 2, 3>>, B |-> <<4, 5, 6>>, C |-> <<7, 8, 9>>]

Groups == <<"A", "B", "C">>

SystemNames == {"Static AR", "Full CV", "Step-Aware CV"}

\* a table whose row 5 names Full CV for two groups
LatinSquareRepeatedRow ==
    <<[A |-> "Static AR",     B |-> "Full CV",       C |-> "Step-Aware CV"],
      [A |-> "Static AR",     B |-> "Full CV",       C |-> "Step-Aware CV"],
      [A |-> "Static AR",     B |-> "Full CV",       C |-> "Step-Aware CV"],
      [A |-> "Static AR",     B |-> "Full CV",       C |-> "Step-Aware CV"],
      [A |-> "Full CV",       B |-> "Full CV",       C |-> "Static AR"],
      [A |-> "Full CV",       B |-> "Step-Aware CV", C |-> "Static AR"],
      [A |-> "Full CV",       B |-> "Step-Aware CV", C |-> "Static AR"],
      [A |-> "Full CV",       B |-> "Step-Aware CV", C |-> "Static AR"],
      [A |-> "Step-Aware CV", B |-> "Static AR",     C |-> "Full CV"],
      [A |-> "Step-Aware CV", B |-> "Static AR",     C |-> "Full CV"],
      [A |-> "Step-Aware CV", B |-> "Static AR",     C |-> "Full CV"],
      [A |-> "Step-Aware CV", B |-> "Static AR",     C |-> "Full CV"]>>

\* a table whose row 4 repeats the order of rows 5 to 8
LatinSquareUnbalanced ==
    <<[A |-> "Static AR",     B |-> "Full CV",       C |-> "Step-Aware CV"],
      [A |-> "Static AR",     B |-> "Full CV",       C |-> "Step-Aware CV"],
      [A |-> "Static AR",     B |-> "Full CV",       C |-> "Step-Aware CV"],
      [A |-> "Full CV",       B |-> "Step-Aware CV", C |-> "Static AR"],
      [A |-> "Full CV",       B |-> "Step-Aware CV", C |-> "Static AR"],
      [A |-> "Full CV",       B |-> "Step-Aware CV", C |-> "Static AR"],
      [A |-> "Full CV",       B |-> "Step-Aware CV", C |-> "Static AR"],
      [A |-> "Full CV",       B |-> "Step-Aware CV", C |-> "Static AR"],
      [A |-> "Step-Aware CV", B |-> "Static AR",     C |-> "Full CV"],
      [A |-> "Step-Aware CV", B |-> "Static AR",     C |-> "Full CV"],
      [A |-> "Step-Aware CV", B |-> "Static AR",     C |-> "Full CV"],
      [A |-> "Step-Aware CV", B |-> "Static AR",     C |-> "Full CV"]>>

LATIN_SQUARE ==
    <<[A |-> "Static AR",     B |-> "Full CV",       C |-> "Step-Aware CV"],
      [A |-> "Static AR",     B |-> "Full CV",       C |-> "Step-Aware CV"],
      [A |-> "Static AR",     B |-> "Full CV",       C |-> "Step-Aware CV"],
      [A |-> "Static AR",     B |-> "Full CV",       C |-> "Step-Aware CV"],
      [A |-> "Full CV",       B |-> "Step-Aware CV", C |-> "Static AR"],
      [A |-> "Full CV",       B |-> "Step-Aware CV", C |-> "Static AR"],
      [A |-> "Full CV",       B |-> "Step-Aware CV", C |-> "Static AR"],
      [A |-> "Full CV",       B |-> "Step-Aware CV", C |-> "Static AR"],
      [A |-> "Step-Aware CV", B |-> "Static AR",     C |-> "Full CV"],
      [A |-> "Step-Aware CV", B |-> "Static AR",     C |-> "Full CV"],
      [A |-> "Step-Aware CV", B |-> "Static AR",     C |-> "Full CV"],
      [A |-> "Step-Aware CV", B |-> "Static AR",     C |-> "Full CV"]>>

DefaultSystems == [A |-> "Static AR", B |-> "Full CV", C |-> "Step-Aware CV"]

\* the orders of revision 2's table written as revision 1's lists
ParticipantSystemOrderOfRevision2 ==
    << <<"Static AR", "Full CV", "Step-Aware CV">>,
       <<"Static AR", "Full CV", "Step-Aware CV">>,
       <<"Static AR", "Full CV", "Step-Aware CV">>,
       <<"Static AR", "Full CV", "Step-Aware CV">>,
       <<"Full CV", "Step-Aware CV", "Static AR">>,
       <<"Full CV", "Step-Aware CV", "Static AR">>,
       <<"Full CV", "Step-Aware CV", "Static AR">>,
       <<"Full CV", "Step-Aware CV", "Static AR">>,
       <<"Step-Aware CV", "Static AR", "Full CV">>,
       <<"Step-Aware CV", "Static AR", "Full CV">>,
       <<"Step-Aware CV", "Static AR", "Full CV">>,
       <<"Step-Aware CV", "Static AR", "Full CV">> >>

\* PARTICIPANT_SYSTEM_ORDER of revision 1: the systems of the three
\* consecutive blocks of three steps
PARTICIPANT_SYSTEM_ORDER ==
    << <<"Static AR", "Full CV", "Step-Aware CV">>,
       <<"Step-Aware CV", "Static AR", "Full CV">>,
       <<"Full CV", "Step-Aware CV", "Static AR">>,
       <<"Static AR", "Full CV", "Step-Aware CV">>,
       <<"Full CV", "Step-Aware CV", "Static AR">>,
       <<"Step-Aware CV", "Static AR", "Full CV">>,
       <<"Full CV", "Step-Aware CV", "Static AR">>,
       <<"Full CV", "Step-Aware CV", "Static AR">>,
       <<"Step-Aware CV", "Static AR", "Full CV">>,
       <<"Static AR", "Full CV", "Step-Aware CV">>,
       <<"Static AR", "Full CV", "Step-Aware CV">>,
       <<"Step-Aware CV", "Static AR", "Full CV">> >>

\* the list setup_page of revision 1 stores in st.session_state.systems:
\* system_order or ["Static AR", "Full CV", "Step-Aware CV"]
SetupSystemsRev1(pid) ==
    LET system_order == IF pid \in DOMAIN PARTICIPANT_SYSTEM_ORDER
                        THEN PARTICIPANT_SYSTEM_ORDER[pid] ELSE <<>>
    IN IF Len(system_order) > 0 THEN system_order
       ELSE <<"Static AR", "Full CV", "Step-Aware CV">>

\* get_current_system() of revision 1 for a list of systems and a step
GetCurrentSystemRev1(systems, step) ==
    LET idx == (step - 1) \div 3 IN
    IF idx < Len(systems) THEN systems[idx + 1] ELSE "Unknown"

\* a grouping by the quotient of the step number
GetCurrentGroupByQuotient(step) == Groups[((step \div 3) % 3) + 1]

\* get_current_group(step): the first group whose step list holds step
get_current_group(step) ==
    IF \E i \in 1..Len(Groups) : \E j \in 1..3 : GROUP_STEPS[Groups[i]][j] = step
    THEN Groups[CHOOSE i \in 1..Len(Groups) :
                    /\ \E j \in 1..3 : GROUP_STEPS[Groups[i]][j] = step
                    /\ \A k \in 1..(i - 1) : \A j \in 1..3 : GROUP_STEPS[Groups[k]][j] # step]
    ELSE "Unknown"

\* a lookup with no default assignment outside the table
GetSystemUnknownOutsideTable(participant, group) ==
    LET pid == ParseInt(participant) IN
    IF pid \in DOMAIN LATIN_SQUARE /\ group \in DOMAIN LATIN_SQUARE[pid]
    THEN LATIN_SQUARE[pid][group]
    ELSE "Unknown"

\* get_system_for_group(participant_id, group); participant is the integer
\* or the formatted text, converted by int()
get_system_for_group(participant, group) ==
    LET pid == ParseInt(participant) IN
    IF pid \in DOMAIN LATIN_SQUARE
    THEN IF group \in DOMAIN LATIN_SQUARE[pid] THEN LATIN_SQUARE[pid][group] ELSE "Unknown"
    ELSE IF group \in DOMAIN DefaultSystems THEN DefaultSystems[group] ELSE "KeyError"

\* get_current_system(participant_id, step)
get_current_system(participant, step) ==
    get_system_for_group(participant, get_current_group(step))

----------------------------------------------------------------------------
(* Answer scoring *)

\* answer.split(): the maximal runs of non-whitespace characters, in order
RECURSIVE SplitFrom(_, _, _)
SplitFrom(s, cur, acc) ==
    IF s = <<>> THEN (IF cur = <<>> THEN acc ELSE Append(acc, cur))
    ELSE IF Head(s) \in Whitespace
         THEN SplitFrom(Tail(s), <<>>, IF cur = <<>> THEN acc ELSE Append(acc, cur))
         ELSE SplitFrom(Tail(s), Append(cur, Head(s)), acc)

Split(s) == SplitFrom(s, <<>>, <<>>)

\* s.strip()
RECURSIVE Strip(_)
Strip(s) ==
    IF s = <<>> THEN s
    ELSE IF Head(s) \in Whitespace THEN Strip(Tail(s))
    ELSE IF s[Len(s)] \in Whitespace THEN Strip(SubSeq(s, 1, Len(s) - 1))
    ELSE s

\* [s.strip() for s in answer.split() if s.strip()]
AnswerList(answer) ==
    LET parts == Split(answer)
        kept == SelectSeq(parts, LAMBDA p : Strip(p) # <<>>)
    IN [i \in 1..Len(kept) |-> Strip(kept[i])]

\* all(ans in target_ids for ans in answer_list)
IsCorrectEveryToken(answer, target_ids) ==
    LET answer_list == AnswerList(answer) IN
    \A i \in 1..Len(answer_list) :
        \E j \in 1..Len(target_ids) : answer_list[i] = target_ids[j]

\* only the first token of the answer is compared
IsCorrectFirstToken(answer, target_ids) ==
    LET answer_list == AnswerList(answer) IN
    /\ Len(answer_list) > 0
    /\ \E j \in 1..Len(target_ids) : answer_list[1] = target_ids[j]

\* any(ans in target_ids for ans in answer_list), mutated: every token must match
IsCorrectAllTokens(answer, target_ids) ==
    LET answer_list == AnswerList(answer) IN
    /\ Len(answer_list) > 0
    /\ \A i \in 1..Len(answer_list) :
           \E j \in 1..Len(target_ids) : answer_list[i] = target_ids[j]

\* any(ans in target_ids for ans in answer_list)
IsCorrect(answer, target_ids) ==
    LET answer_list == AnswerList(answer) IN
    \E i \in 1..Len(answer_list) :
        \E j \in 1..Len(target_ids) : answer_list[i] = target_ids[j]

----------------------------------------------------------------------------
(* Questionnaire *)

likert_labels ==
    <<<<"1", " ", "(", "S", "t", "r", "o", "n", "g", "l", "y", " ", "D", "i", "s", "a", "g", "r", "e", "e", ")">>,
      <<"2">>,
      <<"3">>,
      <<"4">>,
      <<"5">>,
      <<"6">>,
      <<"7", " ", "(", "S", "t", "r", "o", "n", "g", "l", "y", " ", "A", "g", "r", "e", "e", ")">>>>

\* the keys of sart, su and tlx in the order of {**sart, **su, **tlx}
ItemKeys ==
    <<"SART_1", "SART_2", "SART_3", "SART_4", "SART_5", "SART_6", "SART_7", "SART_8", "SART_9", "SART_10",
      "SU_1", "SU_2", "SU_3", "SU_4", "SU_5", "SU_6", "SU_7", "SU_8",
      "TLX_1", "TLX_2", "TLX_3", "TLX_4", "TLX_5", "TLX_6">>

ItemKeySet == {ItemKeys[i] : i \in 1..Len(ItemKeys)}

\* every radio at index=None
Unselected == [k \in ItemKeySet |-> NoSelection]

\* parse_likert(label)
parse_likert(label) ==
    IF label # NoSelection /\ IsDigit(label[1]) THEN DigitVal(label[1]) ELSE None

\* the completeness check over sart and su only
MissingItemsWithoutTlx(responses) ==
    SelectSeq(SubSeq(ItemKeys, 1, 18), LAMBDA k : responses[k] = NoSelection)

\* missing = [k for k, v in {**sart, **su, **tlx}.items() if v is None]
MissingItems(responses) ==
    SelectSeq(ItemKeys, LAMBDA k : responses[k] = NoSelection)

\* result, after the three result.update(...) calls
QuestionnaireResult(participant, system, group, responses) ==
    [RecordType |-> "Questionnaire", Participant |-> participant,
     System |-> system, StepGroup |-> group]
    @@ [k \in ItemKeySet |-> parse_likert(responses[k])]

----------------------------------------------------------------------------
(* Session state *)

\* the number typed into the participant field (the field accepts 1..100)
ParticipantIds == {7}

EmptyRecord ==
    [start_time |-> None, attempts |-> <<>>,
     first_correct_time |-> None, final_correct_time |-> None]

\* the page the main control flow dispatches to
PageOf(pid, complete, gc, q, step) ==
    IF pid = Absent THEN "setup"
    ELSE IF complete THEN "complete"
    ELSE IF gc THEN "group_complete"
    ELSE IF q THEN "questionnaire"
    ELSE IF step <= 9 THEN "record_step"
    ELSE "none"

Page ==
    PageOf(participant_id, experiment_complete, show_group_complete,
           show_questionnaire, current_step)

\* the lazy creation of the current step's record, done by the script run
\* that renders record_step after a handler has changed the state
Rendered(recs, pid, complete, gc, q, step) ==
    IF PageOf(pid, complete, gc, q, step) = "record_step" /\ step \notin DOMAIN recs
    THEN recs @@ (step :> EmptyRecord)
    ELSE recs

\* truth value of a timestamp field: None is false, an ISO string is true
IsSet(t) == t # None

Init ==
    /\ participant_id = Absent
    /\ current_step = 1
    /\ data = <<>>
    /\ show_questionnaire = FALSE
    /\ show_group_complete = FALSE
    /\ step_records = <<>>
    /\ experiment_complete = FALSE
    /\ now = 0
    /\ form_answer = <<>>
    /\ selections = Unselected
    /\ missing_reported = 0
    /\ last = "init"
    /\ detours = 0
    /\ sc_step = 0
    /\ sc_answer = <<>>
    /\ sc_result = "unused"
    /\ as_pid = 0
    /\ as_state = "unused"
    /\ as_systems = <<>>
    /\ as_order = <<>>

----------------------------------------------------------------------------
(* setup_page *)

Setup(pid) ==
    /\ Page = "setup"
    /\ participant_id' = FormatParticipant(pid)
    /\ current_step' = 1
    /\ step_records' = Rendered(step_records, FormatParticipant(pid), experiment_complete,
                                show_group_complete, show_questionnaire, 1)
    /\ form_answer' = <<>>
    /\ selections' = Unselected
    /\ missing_reported' = 0
    /\ last' = "setup"
    /\ UNCHANGED <<data, show_questionnaire, show_group_complete, experiment_complete,
                   now, detours, scoreVars, assignVars>>

----------------------------------------------------------------------------
(* record_step *)

\* a script run that never stops at the step-start button
FormAlwaysRendered(record) == TRUE

\* the script run gets past the st.stop() that follows the step-start button
FormRendered(record) == IsSet(record.start_time)

\* the step-start button
Begin ==
    /\ Page = "record_step"
    /\ ~IsSet(step_records[current_step].start_time)
    /\ step_records' = [step_records EXCEPT ![current_step].start_time = now]
    /\ now' = now + 1
    /\ form_answer' = <<>>
    /\ selections' = Unselected
    /\ missing_reported' = 0
    /\ last' = "begin"
    /\ UNCHANGED <<participant_id, current_step, data, show_questionnaire,
                   show_group_complete, experiment_complete, detours, scoreVars, assignVars>>

\* a scoring that stamps first_correct_time at every correct attempt
WithAttemptMovesFirst(record, timestamp, answer, is_correct) ==
    [record EXCEPT
        !.attempts = Append(@, [timestamp |-> timestamp, answer |-> answer,
                                is_correct |-> is_correct]),
        !.first_correct_time = IF is_correct THEN timestamp ELSE @,
        !.final_correct_time = IF is_correct THEN timestamp ELSE @]

\* the record after one scored attempt has been stored
WithAttempt(record, timestamp, answer, is_correct) ==
    [record EXCEPT
        !.attempts = Append(@, [timestamp |-> timestamp, answer |-> answer,
                                is_correct |-> is_correct]),
        !.first_correct_time = IF is_correct /\ ~IsSet(@) THEN timestamp ELSE @,
        !.final_correct_time = IF is_correct THEN timestamp ELSE @]

\* the answers a researcher types at a step: the first accepted number,
\* a wrong number, a blank and nothing
SessionAnswers(step) == {LookupTarget(step).ids[1], <<"0">>, <<" ">>, <<>>}

AnswerInputs == UNION {SessionAnswers(step) : step \in DOMAIN STEP_TARGETS}

\* the attempt form
SubmitAttempt(answer) ==
    /\ Page = "record_step"
    /\ FormRendered(step_records[current_step])
    /\ answer \in SessionAnswers(current_step)
    /\ LET record == step_records[current_step]
           target_ids == LookupTarget(current_step).ids
           is_correct == IsCorrect(answer, target_ids)
           onScript == is_correct /\ ~IsSet(record.final_correct_time)
           cost == IF onScript THEN 0 ELSE 1
       IN /\ detours + cost <= MaxDetours
          /\ detours' = detours + cost
          /\ IF answer # <<>>
             THEN /\ step_records' = [step_records EXCEPT
                          ![current_step] = WithAttempt(record, now, answer, is_correct)]
                  /\ now' = now + 1
             ELSE UNCHANGED <<step_records, now>>
    /\ form_answer' = answer
    /\ selections' = Unselected
    /\ missing_reported' = 0
    /\ last' = "submit_attempt"
    /\ UNCHANGED <<participant_id, current_step, data, show_questionnaire,
                   show_group_complete, experiment_complete, scoreVars, assignVars>>

\* the finish button offered as soon as the step is started
CanFinalizeOnceStarted(record) == IsSet(record.start_time)

\* the finish button is offered
CanFinalize(record) == IsSet(record.final_correct_time)

\* error_count
ErrorCount(attempts) ==
    Len(SelectSeq(attempts, LAMBDA a : ~a.is_correct))

\* a step_data that takes the system of the first group for every step
StepDataFirstGroupSystem(participant, step, record, note) ==
    [RecordType |-> "Experiment",
     Participant |-> participant,
     StepID |-> step,
     StepGroup |-> get_current_group(step),
     System |-> get_system_for_group(participant, "A"),
     TargetLabel |-> LookupTarget(step).label,
     StartTime |-> record.start_time,
     EndTime |-> record.final_correct_time,
     TotalDuration |-> record.final_correct_time - record.start_time,
     AttemptCount |-> Len(record.attempts),
     ErrorCount |-> ErrorCount(record.attempts),
     FirstAttemptCorrect |-> IF record.attempts # <<>>
                             THEN record.attempts[1].is_correct ELSE FALSE,
     Note |-> note]

\* a step_data that subtracts the end time from the start time
StepDataDurationReversed(participant, step, record, note) ==
    [RecordType |-> "Experiment",
     Participant |-> participant,
     StepID |-> step,
     StepGroup |-> get_current_group(step),
     System |-> get_current_system(participant, step),
     TargetLabel |-> LookupTarget(step).label,
     StartTime |-> record.start_time,
     EndTime |-> record.final_correct_time,
     TotalDuration |-> record.start_time - record.final_correct_time,
     AttemptCount |-> Len(record.attempts),
     ErrorCount |-> ErrorCount(record.attempts),
     FirstAttemptCorrect |-> IF record.attempts # <<>>
                             THEN record.attempts[1].is_correct ELSE FALSE,
     Note |-> note]

\* step_data
StepData(participant, step, record, note) ==
    [RecordType |-> "Experiment",
     Participant |-> participant,
     StepID |-> step,
     StepGroup |-> get_current_group(step),
     System |-> get_current_system(participant, step),
     TargetLabel |-> LookupTarget(step).label,
     StartTime |-> record.start_time,
     EndTime |-> record.final_correct_time,
     TotalDuration |-> record.final_correct_time - record.start_time,
     AttemptCount |-> Len(record.attempts),
     ErrorCount |-> ErrorCount(record.attempts),
     FirstAttemptCorrect |-> IF record.attempts # <<>>
                             THEN record.attempts[1].is_correct ELSE FALSE,
     Note |-> note]

\* the group check without the last group
AfterFinalizeTwoGroups(step, gc) ==
    IF step \in {3, 6}
    THEN [current_step |-> step, show_group_complete |-> TRUE]
    ELSE [current_step |-> step + 1, show_group_complete |-> gc]

\* a finish button without the group check
AfterFinalizeNoGroupPage(step, gc) ==
    [current_step |-> step + 1, show_group_complete |-> gc]

\* where the finish button leaves the step pointer and the group-complete flag
AfterFinalize(step, gc) ==
    IF step \in {3, 6, 9}
    THEN [current_step |-> step, show_group_complete |-> TRUE]
    ELSE [current_step |-> step + 1, show_group_complete |-> gc]

\* the finish button; the note field of the cleared form is empty in this run
Finalize ==
    /\ Page = "record_step"
    /\ FormRendered(step_records[current_step])
    /\ CanFinalize(step_records[current_step])
    /\ LET after == AfterFinalize(current_step, show_group_complete) IN
       /\ data' = Append(data, StepData(participant_id, current_step,
                                        step_records[current_step], ""))
       /\ current_step' = after.current_step
       /\ show_group_complete' = after.show_group_complete
       /\ step_records' = Rendered(step_records, participant_id, experiment_complete,
                                   after.show_group_complete, show_questionnaire,
                                   after.current_step)
    /\ form_answer' = <<>>
    /\ selections' = Unselected
    /\ missing_reported' = 0
    /\ last' = "finalize"
    /\ UNCHANGED <<participant_id, show_questionnaire, experiment_complete,
                   now, detours, scoreVars, assignVars>>

\* a previous-step button that returns to the first step
PreviousTargetFirst(step) == IF step > 1 THEN 1 ELSE step

\* the step pointer after the previous-step button
PreviousTarget(step) == IF step > 1 THEN step - 1 ELSE step

\* the previous-step button
Previous ==
    /\ Page = "record_step"
    /\ FormRendered(step_records[current_step])
    /\ detours < MaxDetours
    /\ detours' = detours + 1
    /\ current_step' = PreviousTarget(current_step)
    /\ step_records' = Rendered(step_records, participant_id, experiment_complete,
                                show_group_complete, show_questionnaire,
                                PreviousTarget(current_step))
    /\ form_answer' = <<>>
    /\ selections' = Unselected
    /\ missing_reported' = 0
    /\ last' = "previous"
    /\ UNCHANGED <<participant_id, data, show_questionnaire, show_group_complete,
                   experiment_complete, now, scoreVars, assignVars>>

\* a reset that keeps the final-correct timestamp
ResetRecordKeepsFinal(record) ==
    [start_time |-> record.start_time, attempts |-> <<>>,
     first_correct_time |-> None, final_correct_time |-> record.final_correct_time]

\* a reset that stores a fresh record
ResetRecordClearsStart(record) ==
    [start_time |-> None, attempts |-> <<>>,
     first_correct_time |-> None, final_correct_time |-> None]

\* the record stored by the reset button
ResetRecord(record) ==
    [start_time |-> record.start_time, attempts |-> <<>>,
     first_correct_time |-> None, final_correct_time |-> None]

\* a reset that also withdraws the task records of the step
ResetDropsTaskRecords ==
    /\ Page = "record_step"
    /\ FormRendered(step_records[current_step])
    /\ detours < MaxDetours
    /\ detours' = detours + 1
    /\ step_records' = [step_records EXCEPT
                            ![current_step] = ResetRecord(step_records[current_step])]
    /\ data' = SelectSeq(data, LAMBDA r : ~(r.RecordType = "Experiment"
                                            /\ r.StepID = current_step))
    /\ form_answer' = <<>>
    /\ selections' = Unselected
    /\ missing_reported' = 0
    /\ last' = "reset"
    /\ UNCHANGED <<participant_id, current_step, show_questionnaire,
                   show_group_complete, experiment_complete, now, scoreVars, assignVars>>

\* the reset-step button
Reset ==
    /\ Page = "record_step"
    /\ FormRendered(step_records[current_step])
    /\ detours < MaxDetours
    /\ detours' = detours + 1
    /\ step_records' = [step_records EXCEPT
                            ![current_step] = ResetRecord(step_records[current_step])]
    /\ form_answer' = <<>>
    /\ selections' = Unselected
    /\ missing_reported' = 0
    /\ last' = "reset"
    /\ UNCHANGED <<participant_id, current_step, data, show_questionnaire,
                   show_group_complete, experiment_complete, now, scoreVars, assignVars>>

----------------------------------------------------------------------------
(* show_group_complete *)

\* a continue button that leaves the group-complete flag set
ContinueFlagsBothSet == [show_group_complete |-> TRUE, show_questionnaire |-> TRUE]

\* a continue button that leaves the group-complete page in place
ContinueFlagsStay == [show_group_complete |-> TRUE, show_questionnaire |-> FALSE]

\* the flags stored by the continue button
ContinueFlags == [show_group_complete |-> FALSE, show_questionnaire |-> TRUE]

\* the continue button
Continue ==
    /\ Page = "group_complete"
    /\ show_group_complete' = ContinueFlags.show_group_complete
    /\ show_questionnaire' = ContinueFlags.show_questionnaire
    /\ form_answer' = <<>>
    /\ selections' = Unselected
    /\ missing_reported' = 0
    /\ last' = "continue"
    /\ UNCHANGED <<participant_id, current_step, data, step_records,
                   experiment_complete, now, detours, scoreVars, assignVars>>

----------------------------------------------------------------------------
(* questionnaire *)

ItemIndex(k) == CHOOSE i \in 1..Len(ItemKeys) : ItemKeys[i] = k

\* the radio selections with the items at the positions in missing left
\* unselected and the others spread over the seven labels
ResponsesWithMissing(missing) ==
    [k \in ItemKeySet |->
        IF ItemIndex(k) \in missing THEN NoSelection
        ELSE likert_labels[(ItemIndex(k) % 7) + 1]]

MissingSets == {1..k : k \in 0..Len(ItemKeys)} \cup {{12}, {24}, {3, 17}}

ResponseInputs == {ResponsesWithMissing(m) : m \in MissingSets}

\* a back button that clears both flags
BackFlagsNone == [show_questionnaire |-> FALSE, show_group_complete |-> FALSE]

\* the flags stored by the back button
BackFlags == [show_questionnaire |-> FALSE, show_group_complete |-> TRUE]

\* the back button of the questionnaire form
Back ==
    /\ Page = "questionnaire"
    /\ detours < MaxDetours
    /\ detours' = detours + 1
    /\ show_questionnaire' = BackFlags.show_questionnaire
    /\ show_group_complete' = BackFlags.show_group_complete
    /\ form_answer' = <<>>
    /\ selections' = Unselected
    /\ missing_reported' = 0
    /\ last' = "back"
    /\ UNCHANGED <<participant_id, current_step, data, step_records,
                   experiment_complete, now, scoreVars, assignVars>>

\* the submit is refused
SubmitRefused(responses) == MissingItems(responses) # <<>>

\* an accepted questionnaire that leaves the step pointer where it is
AfterQuestionnaireNoAdvance(step, complete) ==
    [current_step |-> step,
     experiment_complete |-> IF step > 9 THEN TRUE ELSE complete]

\* the step pointer and the completion flag after an accepted questionnaire
AfterQuestionnaire(step, complete) ==
    [current_step |-> step + 1,
     experiment_complete |-> IF step + 1 > 9 THEN TRUE ELSE complete]

\* the submit button of the questionnaire form
SubmitQuestionnaire(responses) ==
    /\ Page = "questionnaire"
    /\ LET group == get_current_group(current_step)
           system == get_system_for_group(participant_id, group)
           missing == MissingItems(responses)
           after == AfterQuestionnaire(current_step, experiment_complete)
       IN IF SubmitRefused(responses)
          THEN /\ detours < MaxDetours
               /\ detours' = detours + 1
               /\ form_answer' = <<>>
               /\ selections' = responses
               /\ missing_reported' = Len(missing)
               /\ last' = "submit_refused"
               /\ UNCHANGED <<participant_id, current_step, data, show_questionnaire,
                              show_group_complete, step_records, experiment_complete,
                              now, scoreVars, assignVars>>
          ELSE /\ data' = Append(data, QuestionnaireResult(participant_id, system,
                                                           group, responses))
               /\ show_questionnaire' = FALSE
               /\ current_step' = after.current_step
               /\ experiment_complete' = after.experiment_complete
               /\ step_records' = Rendered(step_records, participant_id,
                                           after.experiment_complete, show_group_complete,
                                           FALSE, after.current_step)
               /\ form_answer' = <<>>
               /\ selections' = Unselected
               /\ missing_reported' = 0
               /\ last' = "submit_questionnaire"
               /\ UNCHANGED <<participant_id, show_group_complete, now, detours,
                              scoreVars, assignVars>>

----------------------------------------------------------------------------
(* completion page *)

\* a new-experiment button that removes the participant and keeps the rest
NewExperimentKeepsData ==
    /\ Page = "complete"
    /\ participant_id' = Absent
    /\ current_step' = 1
    /\ form_answer' = <<>>
    /\ selections' = Unselected
    /\ missing_reported' = 0
    /\ now' = 0
    /\ last' = "new_experiment"
    /\ UNCHANGED <<data, show_questionnaire, show_group_complete, step_records,
                   experiment_complete, detours, scoreVars, assignVars>>

\* the new-experiment button: st.session_state.clear(), then the
\* initialisation block of the script run that follows
NewExperiment ==
    /\ Page = "complete"
    /\ participant_id' = Absent
    /\ current_step' = 1
    /\ data' = <<>>
    /\ show_questionnaire' = FALSE
    /\ show_group_complete' = FALSE
    /\ step_records' = <<>>
    /\ experiment_complete' = FALSE
    /\ form_answer' = <<>>
    /\ selections' = Unselected
    /\ missing_reported' = 0
    /\ now' = 0
    /\ last' = "new_experiment"
    /\ UNCHANGED <<detours, scoreVars, assignVars>>

----------------------------------------------------------------------------
(* Specification of a session *)

Next ==
    \/ \E pid \in ParticipantIds : Setup(pid)
    \/ Begin
    \/ \E answer \in AnswerInputs : SubmitAttempt(answer)
    \/ Finalize
    \/ Previous
    \/ Reset
    \/ Continue
    \/ Back
    \/ \E responses \in ResponseInputs : SubmitQuestionnaire(responses)
    \/ NewExperiment

Spec == Init /\ [][Next]_vars

----------------------------------------------------------------------------
(* The session without previous-step, step reset, questionnaire back and  *)
(* session reset, in which the researcher goes on: an enabled begin,       *)
(* correct answer, finish, continue and complete questionnaire is          *)
(* eventually taken.  Wrong, blank and empty answers and incomplete        *)
(* questionnaires remain possible.                                         *)

\* the attempt form submitted with the first accepted number of the step
SubmitCorrectAnswer ==
    /\ Page = "record_step"
    /\ SubmitAttempt(LookupTarget(current_step).ids[1])

\* the questionnaire form submitted with every item answered
SubmitCompleteQuestionnaire ==
    SubmitQuestionnaire(ResponsesWithMissing({}))

\* the questionnaire forms submitted in this session: complete, or with the
\* last item left open
HappyResponseInputs == {ResponsesWithMissing({}), ResponsesWithMissing({24})}

HappyNext ==
    \/ \E pid \in ParticipantIds : Setup(pid)
    \/ Begin
    \/ \E answer \in AnswerInputs : SubmitAttempt(answer)
    \/ Finalize
    \/ Continue
    \/ \E responses \in HappyResponseInputs : SubmitQuestionnaire(responses)

HappyFairness ==
    /\ WF_vars(Begin)
    /\ WF_vars(SubmitCorrectAnswer)
    /\ WF_vars(Finalize)
    /\ WF_vars(Continue)
    /\ WF_vars(SubmitCompleteQuestionnaire)

HappySpec == Init /\ [][HappyNext]_vars /\ HappyFairness

----------------------------------------------------------------------------
(* Scoring harness: the scoring of record_step applied to every answer   *)
(* text over ScoreAlphabet of at most MaxAnswerLen characters, per step. *)

ScoreAlphabet == {"0", "1", "2", "9", " "}

AnswerTexts ==
    UNION {[1..n -> ScoreAlphabet] : n \in 0..MaxAnswerLen}

ScoreInit ==
    /\ participant_id = Absent
    /\ current_step = 1
    /\ data = <<>>
    /\ show_questionnaire = FALSE
    /\ show_group_complete = FALSE
    /\ step_records = <<>>
    /\ experiment_complete = FALSE
    /\ now = 0
    /\ form_answer = <<>>
    /\ selections = Unselected
    /\ missing_reported = 0
    /\ last = "init"
    /\ detours = 0
    /\ sc_step \in DOMAIN STEP_TARGETS
    /\ sc_answer \in AnswerTexts
    /\ sc_result = "pending"
    /\ as_pid = 0
    /\ as_state = "unused"
    /\ as_systems = <<>>
    /\ as_order = <<>>

\* is_correct as the attempt form computes it, "True" or "False"
ScoreAnswer ==
    /\ sc_result = "pending"
    /\ sc_result' = IF IsCorrect(sc_answer, LookupTarget(sc_step).ids)
                    THEN "True" ELSE "False"
    /\ UNCHANGED <<sc_step, sc_answer, sessionVars, assignVars>>

ScoreNext == ScoreAnswer

ScoreSpec == ScoreInit /\ [][ScoreNext]_vars

----------------------------------------------------------------------------
(* Assignment harness: the systems resolved for every participant number *)
(* the setup page accepts, by revision 2 and by revision 1.              *)

\* st.number_input(min_value=1, max_value=100)
MinParticipant == 1
MaxParticipant == 100

AssignInit ==
    /\ participant_id = Absent
    /\ current_step = 1
    /\ data = <<>>
    /\ show_questionnaire = FALSE
    /\ show_group_complete = FALSE
    /\ step_records = <<>>
    /\ experiment_complete = FALSE
    /\ now = 0
    /\ form_answer = <<>>
    /\ selections = Unselected
    /\ missing_reported = 0
    /\ last = "init"
    /\ detours = 0
    /\ sc_step = 0
    /\ sc_answer = <<>>
    /\ sc_result = "unused"
    /\ as_pid \in MinParticipant..MaxParticipant
    /\ as_state = "pending"
    /\ as_systems = <<>>
    /\ as_order = <<>>

\* the start button of the setup page followed by the resolution of the
\* system of every step: revision 2 formats the number and looks the group
\* of the step up, revision 1 stores the list of systems
AssignSystems ==
    /\ as_state = "pending"
    /\ as_state' = "resolved"
    /\ as_systems' = [step \in 1..9 |->
                         get_current_system(FormatParticipant(as_pid), step)]
    /\ as_order' = SetupSystemsRev1(as_pid)
    /\ UNCHANGED <<as_pid, sessionVars, scoreVars>>

AssignNext == AssignSystems

AssignSpec == AssignInit /\ [][AssignNext]_vars

----------------------------------------------------------------------------
(* Vocabulary of the properties *)

TaskRecords(d) == SelectSeq(d, LAMBDA r : r.RecordType = "Experiment")

QuestionnaireRecords(d) == SelectSeq(d, LAMBDA r : r.RecordType = "Questionnaire")

CorrectAttempts(attempts) == {i \in 1..Len(attempts) : attempts[i].is_correct}

WrongAttempts(attempts) == {i \in 1..Len(attempts) : ~attempts[i].is_correct}

UnansweredItems(responses) == {k \in ItemKeySet : responses[k] = NoSelection}

\* the session state of the program, without the clock and the form feedback
programState == <<participant_id, current_step, data, show_questionnaire,
                  show_group_complete, step_records, experiment_complete>>

----------------------------------------------------------------------------
(* Export: the tables the experiment-complete page writes into the zip *)

experiment_cols ==
    {"Participant", "StepID", "StepGroup", "System", "TargetLabel",
     "StartTime", "EndTime", "TotalDuration", "AttemptCount",
     "ErrorCount", "FirstAttemptCorrect", "Note"}

\* "Participant", "System", "StepGroup" and the columns whose name starts
\* with SART_, SU_ or TLX_
questionnaire_cols == {"Participant", "System", "StepGroup"} \cup ItemKeySet

\* experiment_clean: the Experiment records in the order of data, with the
\* columns of experiment_cols
ExperimentTable(d) ==
    [i \in 1..Len(TaskRecords(d)) |->
        [c \in experiment_cols |-> TaskRecords(d)[i][c]]]

\* questionnaire_clean: the Questionnaire records in the order of data, with
\* the columns of questionnaire_cols
QuestionnaireTable(d) ==
    [i \in 1..Len(QuestionnaireRecords(d)) |->
        [c \in questionnaire_cols |-> QuestionnaireRecords(d)[i][c]]]

\* the names of the entries written into the zip: a table without rows is
\* left out
ArchiveEntries(d) ==
    (IF Len(TaskRecords(d)) > 0 THEN {"experiment_data.csv"} ELSE {})
    \cup (IF Len(QuestionnaireRecords(d)) > 0 THEN {"questionnaire_data.csv"} ELSE {})

\* the zip is built and the download button rendered only by the
\* experiment_complete branch of the main control flow
DownloadOffered == Page = "complete"

----------------------------------------------------------------------------
(* C1 .. C10 *)

\* C1: a TaskRecord is appended by the finish button only when the current
\* step's record has final_correct_time set and so holds a correct attempt
\* (with it unset no step finalizes: none appends a TaskRecord); the record
\* appended has AttemptCount equal to the number of attempts of the step record
\* and ErrorCount equal to the number of its attempts with is_correct false.
C1_FinalizeNeedsCorrectAttempt ==
    [][(last' = "finalize" \/ Len(TaskRecords(data')) > Len(TaskRecords(data))) =>
        /\ Page = "record_step"
        /\ LET record == step_records[current_step]
               appended == data'[Len(data')]
           IN /\ IsSet(record.final_correct_time)
              /\ CorrectAttempts(record.attempts) # {}
              /\ data' = Append(data, appended)
              /\ appended.RecordType = "Experiment"
              /\ appended.StepID = current_step
              /\ appended.AttemptCount = Len(record.attempts)
              /\ appended.ErrorCount = Cardinality(WrongAttempts(record.attempts))]_vars

\* a finalize has stored a record of a step with a wrong and a correct attempt
C1_Witness ==
    /\ last = "finalize"
    /\ data[Len(data)].AttemptCount = 2
    /\ data[Len(data)].ErrorCount = 1

\* C2 (as claimed): the records hold at most 9 TaskRecords and no step ID is
\* finalized into more than one TaskRecord.
C2_AtMostOneTaskRecordPerStep ==
    LET tasks == TaskRecords(data) IN
    /\ Len(tasks) <= 9
    /\ \A i, j \in 1..Len(tasks) : tasks[i].StepID = tasks[j].StepID => i = j

\* C3 (as claimed): there is at most one QuestionnaireRecord per step-group,
\* hence at most 3, and each one holds a score 1..7 for all 24 items.
C3_AtMostOneQuestionnairePerGroup ==
    LET qs == QuestionnaireRecords(data) IN
    /\ Len(qs) <= 3
    /\ \A i, j \in 1..Len(qs) : qs[i].StepGroup = qs[j].StepGroup => i = j
    /\ \A i \in 1..Len(qs) : \A k \in ItemKeySet : qs[i][k] \in 1..7

\* C4: a finalize in InStep(n) leads to the group-complete page with the step
\* pointer still n when n is 3, 6 or 9, and otherwise to the step page of n + 1.
C4_FinalizeSuccessor ==
    [][last' = "finalize" =>
        /\ Page = "record_step"
        /\ IF current_step \in {3, 6, 9}
           THEN /\ Page' = "group_complete"
                /\ current_step' = current_step
           ELSE /\ Page' = "record_step"
                /\ current_step' = current_step + 1
                /\ current_step' \in DOMAIN step_records']_vars

\* step 6 has been finalized and the group-complete page of group B is shown
C4_Witness ==
    /\ last = "finalize"
    /\ Page = "group_complete"
    /\ current_step = 6
    /\ data[Len(data)].StepID = 6

\* C5: on the questionnaire page a submit is refused only when an item is
\* unanswered; an accepted submit appends exactly one QuestionnaireRecord, of
\* the group whose last step is the step pointer n, and leads to the step page
\* of n + 1, or to the completion page when n + 1 exceeds 9.
C5_QuestionnaireSubmitSuccessor ==
    [][/\ last' = "submit_refused" => UnansweredItems(selections') # {}
       /\ last' = "submit_questionnaire" =>
            /\ Page = "questionnaire"
            /\ LET group == get_current_group(current_step)
                   appended == data'[Len(data')]
               IN /\ group \in DOMAIN GROUP_STEPS
                  /\ current_step = GROUP_STEPS[group][3]
                  /\ data' = Append(data, appended)
                  /\ appended.RecordType = "Questionnaire"
                  /\ appended.StepGroup = group
            /\ current_step' = current_step + 1
            /\ IF current_step + 1 > 9
               THEN Page' = "complete"
               ELSE Page' = "record_step"]_vars

\* the questionnaire of group C has been accepted and the session is complete
C5_Witness ==
    /\ last = "submit_questionnaire"
    /\ Page = "complete"
    /\ Len(QuestionnaireRecords(data)) = 3

\* C6: on the questionnaire page a submit with k >= 1 unanswered items is
\* refused: the records, the page and the step pointer are unchanged and the
\* count reported is k; a submit that is accepted has no unanswered item.
C6_IncompleteSubmitRefused ==
    [][/\ last' = "submit_refused" =>
            /\ Page = "questionnaire"
            /\ Page' = "questionnaire"
            /\ programState' = programState
            /\ missing_reported' = Cardinality(UnansweredItems(selections'))
            /\ missing_reported' >= 1
       /\ last' = "submit_questionnaire" =>
            \A k \in ItemKeySet : data'[Len(data')][k] # None]_vars

\* a submit with 23 of the 24 items answered has been refused
C6_Witness ==
    /\ last = "submit_refused"
    /\ Cardinality(UnansweredItems(selections)) = 1
    /\ missing_reported = 1

\* C7: from the completion page the only step that changes the session is the
\* full reset, which leads to the setup page with no participant, no step
\* records and no records; from the setup page the only step is a setup that
\* leads to the step page of step 1 with no records.
C7_CompleteIsTerminal ==
    [][/\ Page = "complete" =>
            \/ programState' = programState
            \/ /\ Page' = "setup"
               /\ participant_id' = Absent
               /\ step_records' = <<>>
               /\ data' = <<>>
       /\ Page = "setup" =>
            \/ programState' = programState
            \/ /\ Page' = "record_step"
               /\ current_step' = 1
               /\ data' = <<>>
               /\ step_records' = (1 :> EmptyRecord)]_vars

\* the full session reset has acted on a complete session
C7_Witness ==
    /\ last = "new_experiment"
    /\ Page = "setup"
    /\ data = <<>>

\* C8: the group-complete and questionnaire flags are never both set, neither
\* is set on the setup page or when the experiment is complete, and past setup
\* with none of the three set the step pointer is within 1..9, so the
\* dispatcher always selects a page.
C8_ExactlyOnePhase ==
    /\ ~(show_group_complete /\ show_questionnaire)
    /\ experiment_complete => ~show_group_complete /\ ~show_questionnaire
    /\ participant_id = Absent =>
           ~show_group_complete /\ ~show_questionnaire /\ ~experiment_complete
    /\ (/\ participant_id # Absent
        /\ ~experiment_complete
        /\ ~show_group_complete
        /\ ~show_questionnaire) => current_step \in 1..9
    /\ Page # "none"

\* the questionnaire page has been entered from the group-complete page
C8_Witness ==
    /\ last = "continue"
    /\ show_questionnaire
    /\ ~show_group_complete

\* C9: while the current step's start_time is unset, every step of the session
\* is a begin: it sets start_time and leaves the attempts, the correctness
\* timestamps, the step pointer, the other step records and the records alone.
C9_NoAttemptBeforeBegin ==
    [][(Page = "record_step" /\ ~IsSet(step_records[current_step].start_time)) =>
        \/ programState' = programState
        \/ /\ IsSet(step_records'[current_step].start_time)
           /\ step_records' = [step_records EXCEPT
                  ![current_step].start_time = step_records'[current_step].start_time]
           /\ <<participant_id, current_step, data, show_questionnaire,
                show_group_complete, experiment_complete>>' =
              <<participant_id, current_step, data, show_questionnaire,
                show_group_complete, experiment_complete>>]_vars

\* step 2 has been begun from its unstarted record
C9_Witness ==
    /\ last = "begin"
    /\ current_step = 2
    /\ step_records[2].attempts = <<>>

\* C10 (as claimed): with the targets of step 3, the answers "9 1" and "1" are
\* scored correct and the answer "09 1" is scored not correct.
C10_AsClaimed ==
    (sc_step = 3 /\ sc_result # "pending") =>
        /\ sc_answer = <<"9", " ", "1">> => sc_result = "True"
        /\ sc_answer = <<"1">> => sc_result = "True"
        /\ sc_answer = <<"0", "9", " ", "1">> => sc_result = "False"

\* C10 (amended): with the targets of step 3, the answers "9 1", "1" and
\* "09 1" are all scored correct, "09 1" by its token "1"; the answer "09"
\* is scored not correct.
C10_AnyTokenMatches ==
    (sc_step = 3 /\ sc_result # "pending") =>
        /\ sc_answer = <<"9", " ", "1">> => sc_result = "True"
        /\ sc_answer = <<"1">> => sc_result = "True"
        /\ sc_answer = <<"0", "9", " ", "1">> => sc_result = "True"
        /\ sc_answer = <<"0", "9">> => sc_result = "False"

\* the answer "09 1" has been scored for step 3
C10_Witness ==
    /\ sc_step = 3
    /\ sc_answer = <<"0", "9", " ", "1">>
    /\ sc_result = "True"

----------------------------------------------------------------------------
(* C11 .. C20 *)

\* positions i..j of the text are a whitespace-separated token
IsTokenAt(text, i, j) ==
    /\ 1 <= i /\ i <= j /\ j <= Len(text)
    /\ \A k \in i..j : text[k] \notin Whitespace
    /\ i = 1 \/ text[i - 1] \in Whitespace
    /\ j = Len(text) \/ text[j + 1] \in Whitespace

\* some token of the text is, character for character, an accepted number of the step
HasAcceptedToken(text, step) ==
    \E i, j \in 1..Len(text) :
        /\ IsTokenAt(text, i, j)
        /\ \E t \in 1..Len(LookupTarget(step).ids) :
               SubSeq(text, i, j) = LookupTarget(step).ids[t]

\* C11: for every step 1..9 and every answer text, is_correct is true if and
\* only if at least one whitespace-separated token of the answer is exactly
\* equal to an accepted number of that step.
C11_CorrectIffTokenAccepted ==
    sc_result # "pending" =>
        (sc_result = "True" <=> HasAcceptedToken(sc_answer, sc_step))

\* the answer "0 12" has been scored correct for step 6 by its second token
C11_Witness ==
    /\ sc_step = 6
    /\ sc_answer = <<"0", " ", "1", "2">>
    /\ sc_result = "True"

\* the text holds no token: it is empty or whitespace only
NoTokens(text) == \A k \in 1..Len(text) : text[k] \in Whitespace

\* the current step's record holds exactly one more attempt, which is scored
\* not correct, and the same correctness timestamps
OneIncorrectAttemptAppended ==
    LET before == step_records[current_step]
        after == step_records'[current_step]
    IN /\ Len(after.attempts) = Len(before.attempts) + 1
       /\ SubSeq(after.attempts, 1, Len(before.attempts)) = before.attempts
       /\ after.attempts[Len(after.attempts)].is_correct = FALSE
       /\ after.attempts[Len(after.attempts)].answer = form_answer'
       /\ after.first_correct_time = before.first_correct_time
       /\ after.final_correct_time = before.final_correct_time
       /\ after.start_time = before.start_time

\* C12 (as claimed): on a started step, submitting an answer with no tokens
\* (the empty string or whitespace only) appends exactly one Attempt, with
\* is_correct false, and leaves first_correct_time and final_correct_time alone.
C12_AsClaimed ==
    [][(last' = "submit_attempt" /\ NoTokens(form_answer')) =>
            OneIncorrectAttemptAppended]_vars

\* C12 (amended): on a started step, submitting a whitespace-only answer of at
\* least one character appends exactly one Attempt, with is_correct false, and
\* leaves first_correct_time and final_correct_time alone; submitting the empty
\* string appends no Attempt and leaves the step records and the records alone.
C12_BlankAppendsEmptyDoesNot ==
    [][(last' = "submit_attempt" /\ NoTokens(form_answer')) =>
            /\ IsSet(step_records[current_step].start_time)
            /\ IF form_answer' = <<>>
               THEN programState' = programState
               ELSE OneIncorrectAttemptAppended]_vars

\* a whitespace-only answer has been stored as an incorrect attempt
C12_Witness ==
    /\ last = "submit_attempt"
    /\ form_answer = <<" ">>
    /\ Page = "record_step"
    /\ LET attempts == step_records[current_step].attempts IN
       /\ attempts # <<>>
       /\ attempts[Len(attempts)].answer = <<" ">>
       /\ ~attempts[Len(attempts)].is_correct

\* the session state apart from the step records
exceptStepRecords == <<participant_id, current_step, data, show_questionnaire,
                       show_group_complete, experiment_complete>>

\* the session state apart from the two page flags
exceptPageFlags == <<participant_id, current_step, data, step_records,
                     experiment_complete>>

\* C13: a reset of the current step, whose start_time is set, empties the
\* attempt list and unsets first_correct_time and final_correct_time, and
\* leaves start_time, the step pointer, the page, the other step records and
\* the records alone; while final_correct_time is unset no finalize happens;
\* a reset that follows a reset changes nothing.
C13_ResetClearsAttemptsOnly ==
    [][/\ last' = "reset" =>
            /\ Page = "record_step"
            /\ IsSet(step_records[current_step].start_time)
            /\ step_records' = [step_records EXCEPT ![current_step] =
                   [start_time |-> step_records[current_step].start_time,
                    attempts |-> <<>>,
                    first_correct_time |-> None,
                    final_correct_time |-> None]]
            /\ exceptStepRecords' = exceptStepRecords
       /\ (last = "reset" /\ last' = "reset") => programState' = programState
       /\ (/\ Page = "record_step"
           /\ ~IsSet(step_records[current_step].final_correct_time)) =>
              (last' # "finalize" /\ data' = data)]_vars

\* step 1 has been reset after an attempt had been stored in it
C13_Witness ==
    /\ last = "reset"
    /\ current_step = 1
    /\ DOMAIN step_records = {1}
    /\ now >= 2
    /\ step_records[1].attempts = <<>>
    /\ step_records[1].start_time = 0

\* C14: the previous-step button on the page of step n sets the step pointer
\* to n - 1 when n > 1 and leaves it at 1 when n = 1; it appends no record and
\* leaves every step record and the records alone.
C14_PreviousOnlyMovesPointer ==
    [][last' = "previous" =>
            /\ Page = "record_step"
            /\ current_step' = IF current_step > 1 THEN current_step - 1 ELSE current_step
            /\ Page' = "record_step"
            /\ step_records' = step_records
            /\ data' = data
            /\ participant_id' = participant_id]_vars

\* the previous-step button has led from step 3 back to step 2
C14_Witness ==
    /\ last = "previous"
    /\ current_step = 2
    /\ 3 \in DOMAIN step_records
    /\ Len(data) = 2

\* C15: the back button leads from the questionnaire page to the
\* group-complete page and the continue button from the group-complete page to
\* the questionnaire page; both leave the step pointer, the step records and
\* the records alone.
C15_BackAndContinueSwapPages ==
    [][/\ last' = "back" =>
            /\ Page = "questionnaire"
            /\ Page' = "group_complete"
            /\ exceptPageFlags' = exceptPageFlags
       /\ last' = "continue" =>
            /\ Page = "group_complete"
            /\ Page' = "questionnaire"
            /\ exceptPageFlags' = exceptPageFlags]_vars

\* the back button has acted a second time in a row of back and continue
C15_Witness ==
    /\ last = "back"
    /\ detours = 2
    /\ Page = "group_complete"
    /\ current_step = 6

\* C20: once a step's start_time is set, every step of the session other than
\* the full reset leaves it as it is, and a begin only acts on a step whose
\* start_time is unset.
C20_StartTimeSetOnce ==
    [][/\ \A step \in DOMAIN step_records :
              IsSet(step_records[step].start_time) =>
                  \/ last' = "new_experiment"
                  \/ /\ step \in DOMAIN step_records'
                     /\ step_records'[step].start_time = step_records[step].start_time
       /\ last' = "begin" => ~IsSet(step_records[current_step].start_time)]_vars

\* step 2 has been reset and still has the start time of its begin
C20_Witness ==
    /\ last = "reset"
    /\ current_step = 2
    /\ IsSet(step_records[2].start_time)
    /\ step_records[2].start_time > step_records[1].final_correct_time

\* the systems revision 2 resolved for the steps of a group
SystemsOfGroup(group) ==
    {as_systems[GROUP_STEPS[group][j]] : j \in 1..3}

\* the systems revision 2 resolved for groups A, B and C, in this order
ResolvedTriple ==
    <<as_systems[1], as_systems[4], as_systems[7]>>

\* the systems revision 1 resolves for the three blocks of steps, in order
ResolvedTripleRev1 ==
    <<GetCurrentSystemRev1(as_order, 1), GetCurrentSystemRev1(as_order, 4),
      GetCurrentSystemRev1(as_order, 7)>>

IsPermutationOfSystems(triple) ==
    /\ Len(triple) = 3
    /\ {triple[i] : i \in 1..3} = SystemNames
    /\ \A i, j \in 1..3 : i # j => triple[i] # triple[j]

\* C16: for every participant number 1..12 each group resolves to one system
\* and the systems of groups A, B and C are pairwise distinct, a permutation
\* of the three system names, in revision 2 and in revision 1.
C16_TableRowsArePermutations ==
    (as_state = "resolved" /\ as_pid \in 1..12) =>
        /\ \A group \in {"A", "B", "C"} : Cardinality(SystemsOfGroup(group)) = 1
        /\ IsPermutationOfSystems(ResolvedTriple)
        /\ IsPermutationOfSystems(ResolvedTripleRev1)

\* participant 5 resolved to Full CV, Step-Aware CV, Static AR
C16_Witness ==
    /\ as_state = "resolved"
    /\ as_pid = 5
    /\ ResolvedTriple = <<"Full CV", "Step-Aware CV", "Static AR">>

\* C17: for every participant number 13..100 the systems resolved are
\* Static AR for group A, Full CV for group B and Step-Aware CV for group C,
\* and for every accepted number every step resolves to one of the three
\* system names.
C17_DefaultOutsideTable ==
    as_state = "resolved" =>
        /\ as_pid \notin 1..12 =>
              /\ ResolvedTriple = <<"Static AR", "Full CV", "Step-Aware CV">>
              /\ ResolvedTripleRev1 = <<"Static AR", "Full CV", "Step-Aware CV">>
        /\ \A step \in 1..9 :
              /\ as_systems[step] \in SystemNames
              /\ GetCurrentSystemRev1(as_order, step) \in SystemNames

\* participant 100, formatted with three digits, resolved to the default
C17_Witness ==
    /\ as_state = "resolved"
    /\ as_pid = 100
    /\ as_systems[9] = "Step-Aware CV"
    /\ as_order[1] = "Static AR"

\* participant "07" has begun, answered with one correct attempt and finished
\* steps 1, 2 and 3 and submitted the complete questionnaire of group A, with
\* no other action in between
ScenarioGroupADone ==
    /\ participant_id = <<"0", "7">>
    /\ detours = 0
    /\ last = "submit_questionnaire"
    /\ current_step = 4

\* the records of the scenario: three task records of steps 1, 2, 3 and one
\* questionnaire record of group A, all of system Full CV
ScenarioRecords(d) ==
    /\ Len(d) = 4
    /\ Len(TaskRecords(d)) = 3
    /\ \A i \in 1..3 :
          /\ d[i].RecordType = "Experiment"
          /\ d[i].StepID = i
          /\ d[i].System = "Full CV"
          /\ d[i].AttemptCount = 1
    /\ Len(QuestionnaireRecords(d)) = 1
    /\ d[4].RecordType = "Questionnaire"
    /\ d[4].StepGroup = "A"
    /\ d[4].System = "Full CV"

\* C18 (as claimed): after the scenario an archive is exported, with exactly 3
\* task rows, all of system Full CV, and exactly 1 questionnaire row, of
\* system Full CV.
C18_AsClaimed ==
    ScenarioGroupADone =>
        /\ DownloadOffered
        /\ Len(ExperimentTable(data)) = 3
        /\ \A i \in 1..3 : ExperimentTable(data)[i]["System"] = "Full CV"
        /\ Len(QuestionnaireTable(data)) = 1
        /\ QuestionnaireTable(data)[1]["System"] = "Full CV"

\* C18 (amended): after the scenario the session holds exactly 3 task records,
\* all of system Full CV, and 1 questionnaire record of system Full CV, and no
\* archive is offered: the page is that of step 4.  The archive is offered
\* only when the experiment is complete; after an undisturbed session of
\* participant "07" it holds both entries, 9 task rows of which those of
\* steps 1, 2, 3 come first with system Full CV, and 3 questionnaire rows of
\* which that of group A comes first with system Full CV.
C18_RecordsAfterGroupA ==
    /\ ScenarioGroupADone =>
          /\ ScenarioRecords(data)
          /\ ~DownloadOffered
          /\ Page = "record_step"
    /\ DownloadOffered => current_step = 10
    /\ (DownloadOffered /\ detours = 0 /\ participant_id = <<"0", "7">>) =>
          /\ ArchiveEntries(data) = {"experiment_data.csv", "questionnaire_data.csv"}
          /\ Len(ExperimentTable(data)) = 9
          /\ \A i \in 1..9 :
                /\ ExperimentTable(data)[i]["StepID"] = i
                /\ ExperimentTable(data)[i]["System"] =
                       (<<"Full CV", "Step-Aware CV", "Static AR">>)[((i - 1) \div 3) + 1]
          /\ Len(QuestionnaireTable(data)) = 3
          /\ \A g \in 1..3 :
                /\ QuestionnaireTable(data)[g]["StepGroup"] = Groups[g]
                /\ QuestionnaireTable(data)[g]["System"] =
                       (<<"Full CV", "Step-Aware CV", "Static AR">>)[g]

\* the scenario has been carried out
C18_Witness ==
    /\ ScenarioGroupADone
    /\ ScenarioRecords(data)
    /\ now = 6

----------------------------------------------------------------------------
(* C21 .. C28 *)

\* the least and the greatest element of a non-empty set of indices
MinIndex(S) == CHOOSE i \in S : \A j \in S : i <= j
MaxIndex(S) == CHOOSE i \in S : \A j \in S : j <= i

\* C21: in every step record first_correct_time and final_correct_time are
\* both unset exactly when no attempt of the list is correct; otherwise
\* first_correct_time is the timestamp of the earliest correct attempt and
\* final_correct_time that of the latest, so first_correct_time is not later
\* than final_correct_time.
C21_CorrectTimesFollowAttempts ==
    \A step \in DOMAIN step_records :
        LET record == step_records[step]
            correct == CorrectAttempts(record.attempts)
        IN IF correct = {}
           THEN /\ ~IsSet(record.first_correct_time)
                /\ ~IsSet(record.final_correct_time)
           ELSE /\ record.first_correct_time = record.attempts[MinIndex(correct)].timestamp
                /\ record.final_correct_time = record.attempts[MaxIndex(correct)].timestamp
                /\ record.first_correct_time <= record.final_correct_time

\* step 1 holds a correct attempt, a wrong one and a later correct one
C21_Witness ==
    /\ 1 \in DOMAIN step_records
    /\ Len(step_records[1].attempts) = 3
    /\ CorrectAttempts(step_records[1].attempts) = {1, 3}
    /\ step_records[1].first_correct_time < step_records[1].final_correct_time

\* the group of a step under the partition A = {1,2,3}, B = {4,5,6}, C = {7,8,9}
PartitionGroup(step) ==
    IF step \in {1, 2, 3} THEN "A" ELSE IF step \in {4, 5, 6} THEN "B" ELSE "C"

\* the system the table assigns to a participant number for a group, the
\* default order outside the table
AssignedSystem(pid, group) ==
    IF pid \in 1..12 THEN LATIN_SQUARE[pid][group] ELSE DefaultSystems[group]

\* C22: every task record carries the session's participant, the group of its
\* StepID under the fixed partition and the system assigned to the participant
\* for that group; every questionnaire record carries the system assigned for
\* its StepGroup; so records of one group agree on the system and records of
\* different groups differ in it.
C22_RecordsCarryAssignedSystem ==
    /\ \A i \in 1..Len(data) :
          /\ data[i].Participant = participant_id
          /\ data[i].StepGroup \in {"A", "B", "C"}
          /\ data[i].RecordType = "Experiment" =>
                 /\ data[i].StepID \in 1..9
                 /\ data[i].StepGroup = PartitionGroup(data[i].StepID)
          /\ data[i].System =
                 AssignedSystem(ParseInt(participant_id), data[i].StepGroup)
    /\ \A i, j \in 1..Len(data) :
          (data[i].StepGroup = data[j].StepGroup) <=> (data[i].System = data[j].System)

\* the complete session of participant "07" holds records of all three systems
C22_Witness ==
    /\ Page = "complete"
    /\ Len(data) >= 12
    /\ {data[i].System : i \in 1..Len(data)} = SystemNames
    /\ \E i \in 1..Len(data) :
          data[i].RecordType = "Questionnaire" /\ data[i].System = "Static AR"

\* C23: every step of the session other than the full reset leaves the
\* records accumulated so far in place: the sequence before the step is a
\* prefix of the sequence after it.
C23_RecordsAppendOnly ==
    [][last' # "new_experiment" =>
          /\ Len(data') >= Len(data)
          /\ SubSeq(data', 1, Len(data)) = data]_vars

\* a step that had been finalized has been reset, and its task record is
\* still there
C23_Witness ==
    /\ last = "reset"
    /\ \E i \in 1..Len(data) :
          data[i].RecordType = "Experiment" /\ data[i].StepID = current_step

\* the participant numbers 1..12 for which revision 2 resolves a system
\* for the first step of a group
ParticipantsWithSystem(group, system) ==
    {pid \in 1..12 :
        get_current_system(FormatParticipant(pid), GROUP_STEPS[group][1]) = system}

\* the same for revision 1, which resolves by the position of the step
ParticipantsWithSystemRev1(group, system) ==
    {pid \in 1..12 :
        GetCurrentSystemRev1(SetupSystemsRev1(pid), GROUP_STEPS[group][1]) = system}

\* C24: among the participant numbers 1..12 the system resolved for a group
\* is shared by exactly 4 participants, for every group and each of the three
\* systems, in revision 2 and in revision 1.
C24_BalancedExposure ==
    (as_state = "resolved" /\ as_pid \in 1..12) =>
        /\ \A g \in 1..3 :
              /\ Cardinality(ParticipantsWithSystem(Groups[g], ResolvedTriple[g])) = 4
              /\ Cardinality(ParticipantsWithSystemRev1(Groups[g], ResolvedTripleRev1[g])) = 4
        /\ \A group \in {"A", "B", "C"} : \A system \in SystemNames :
              /\ Cardinality(ParticipantsWithSystem(group, system)) = 4
              /\ Cardinality(ParticipantsWithSystemRev1(group, system)) = 4

\* participant 12 resolved, one of the four with Step-Aware CV for group A
C24_Witness ==
    /\ as_state = "resolved"
    /\ as_pid = 12
    /\ ResolvedTriple[1] = "Step-Aware CV"
    /\ as_pid \in ParticipantsWithSystem("A", "Step-Aware CV")

\* the two revisions resolve the same system for a step
RevisionsAgreeAt(step) ==
    as_systems[step] = GetCurrentSystemRev1(as_order, step)

\* the participant numbers whose rows differ between the two tables
RowsChangedByRevision2 == {2, 3, 6, 10, 11}

\* C28 (as claimed): for every participant number 1..12 and every step 1..9
\* the two revisions resolve the same system.
C28_AsClaimed ==
    (as_state = "resolved" /\ as_pid \in 1..12) =>
        \A step \in 1..9 : RevisionsAgreeAt(step)

\* C28 (amended): the two revisions resolve the same system at every step for
\* the participant numbers 1, 4, 5, 7, 8, 9, 12 and for every number above 12;
\* for the numbers 2, 3, 6, 10, 11 they resolve different systems at every
\* step.
C28_RevisionsAgreeOnUnchangedRows ==
    as_state = "resolved" =>
        IF as_pid \in RowsChangedByRevision2
        THEN \A step \in 1..9 : ~RevisionsAgreeAt(step)
        ELSE \A step \in 1..9 : RevisionsAgreeAt(step)

\* participant 2: Static AR in revision 2, Step-Aware CV in revision 1
C28_Witness ==
    /\ as_state = "resolved"
    /\ as_pid = 2
    /\ as_systems[1] = "Static AR"
    /\ GetCurrentSystemRev1(as_order, 1) = "Step-Aware CV"

\* a task record of the step is among the records
HasTaskRecord(step) ==
    \E i \in 1..Len(data) :
        data[i].RecordType = "Experiment" /\ data[i].StepID = step

\* a questionnaire record of the group is among the records
HasQuestionnaireRecord(group) ==
    \E i \in 1..Len(data) :
        data[i].RecordType = "Questionnaire" /\ data[i].StepGroup = group

\* C25: past setup with the step pointer at n, every step below n has a task
\* record and every group whose last step is below n has a questionnaire
\* record; on the group-complete and questionnaire pages n is 3, 6 or 9 and
\* step n has a task record too; when the experiment is complete n is 10, so
\* all nine steps and all three groups have their records.
C25_RecordsBehindPointer ==
    participant_id # Absent =>
        /\ Page \in {"record_step", "group_complete", "questionnaire", "complete"}
        /\ \A m \in 1..9 : m < current_step => HasTaskRecord(m)
        /\ \A g \in 1..3 : 3 * g < current_step => HasQuestionnaireRecord(Groups[g])
        /\ Page \in {"group_complete", "questionnaire"} =>
              /\ current_step \in {3, 6, 9}
              /\ HasTaskRecord(current_step)
        /\ Page = "complete" =>
              /\ current_step = 10
              /\ \A m \in 1..9 : HasTaskRecord(m)
              /\ \A group \in {"A", "B", "C"} : HasQuestionnaireRecord(group)

\* the questionnaire of group B is open after six steps and one questionnaire
C25_Witness ==
    /\ Page = "questionnaire"
    /\ current_step = 6
    /\ Len(TaskRecords(data)) = 6
    /\ Len(QuestionnaireRecords(data)) = 1

\* C27: in every step record the attempt timestamps are not earlier than the
\* start time and do not decrease along the list, and every task record has
\* StartTime <= EndTime and TotalDuration = EndTime - StartTime >= 0.
C27_DurationsNonNegative ==
    /\ \A step \in DOMAIN step_records :
          LET record == step_records[step] IN
          /\ record.attempts # <<>> => IsSet(record.start_time)
          /\ \A i \in 1..Len(record.attempts) :
                /\ record.attempts[i].timestamp >= record.start_time
                /\ \A j \in 1..(i - 1) :
                      record.attempts[j].timestamp <= record.attempts[i].timestamp
    /\ \A i \in 1..Len(data) :
          data[i].RecordType = "Experiment" =>
              /\ IsSet(data[i].StartTime)
              /\ data[i].StartTime <= data[i].EndTime
              /\ data[i].TotalDuration = data[i].EndTime - data[i].StartTime
              /\ data[i].TotalDuration >= 0

\* step 1 was finished with the one attempt made after a reset
C27_Witness ==
    /\ last = "finalize"
    /\ Len(data) = 1
    /\ data[1].StepID = 1
    /\ data[1].AttemptCount = 1
    /\ data[1].TotalDuration = 2

\* the records of a session in the order step 1, 2, 3, questionnaire A,
\* step 4, 5, 6, questionnaire B, step 7, 8, 9, questionnaire C
RecordsInSessionOrder(d) ==
    /\ Len(d) = 12
    /\ Len(TaskRecords(d)) = 9
    /\ Len(QuestionnaireRecords(d)) = 3
    /\ \A g \in 1..3 :
          /\ \A j \in 1..3 :
                /\ d[4 * (g - 1) + j].RecordType = "Experiment"
                /\ d[4 * (g - 1) + j].StepID = 3 * (g - 1) + j
          /\ d[4 * g].RecordType = "Questionnaire"
          /\ d[4 * g].StepGroup = Groups[g]

\* C26: without previous-step, step reset, questionnaire back and session
\* reset, and with every enabled begin, correct answer, finish, continue and
\* complete questionnaire eventually taken, a session past setup eventually
\* reaches the experiment-complete page, and there the records are exactly 9
\* task records and 3 questionnaire records in the order step 1, 2, 3,
\* questionnaire A, step 4, 5, 6, questionnaire B, step 7, 8, 9,
\* questionnaire C.
C26_HappyPathCompletes ==
    /\ (participant_id # Absent) ~> (Page = "complete")
    /\ [](Page = "complete" => RecordsInSessionOrder(data))

\* the experiment is complete after a session with a wrong answer or a
\* refused questionnaire on the way
C26_Witness ==
    /\ Page = "complete"
    /\ RecordsInSessionOrder(data)
    /\ detours >= 1
    /\ now >= 19

====
